---- MODULE Spec2Model ----
(***************************************************************************)
(* Model of the hotline webhook relay, src/webservice/__main__.py.         *)
(*                                                                         *)
(* A Python str is a sequence of tokens.  Strings the code takes apart     *)
(* (the identifiers it strips, the AUTO_RECORD flag it lower-cases) are    *)
(* sequences of one-character tokens; literals and opaque values are one   *)
(* token each.  An f-string is the concatenation of its parts.             *)
(*                                                                         *)
(* The handlers hold no await on the provider client (the client is        *)
(* synchronous), so each handler runs to completion as one step.           *)
(*                                                                         *)
(* Spec runs one request cycle of any handler under every configuration;   *)
(* SpecSession runs one configuration through interleaved inbound calls    *)
(* and the staff answers the provider reports for the calls it dialed.     *)
(***************************************************************************)
EXTENDS Integers, Sequences, FiniteSets, TLC

VARIABLES
    environ,    \* os.environ: the process configuration, fixed after start
    dialed,     \* provider side: outbound calls created and not yet answered
    last,       \* the request cycle that ran last: request, provider requests, response
    nreq        \* number of request cycles served

vars == <<environ, dialed, last, nreq>>

(***************************** bounds **************************************)
MaxStaff == 2
MaxSessionRequests == 3

(************************ Python values and str ****************************)
\* Python's None; os.environ.get of an unset variable.
None == <<"<None>">>

\* str(x) as an f-string field renders it: None renders as "None".
Str(x) == IF x = None THEN <<"None">> ELSE x

Whitespace == {" ", "\t", "\n"}

\* str.lower, character by character.
lower_char(ch) ==
    CASE ch = "T" -> "t"
      [] ch = "R" -> "r"
      [] ch = "U" -> "u"
      [] ch = "E" -> "e"
      [] ch = "F" -> "f"
      [] OTHER -> ch

lower(s) == IF s = <<>> THEN <<>> ELSE [i \in 1..Len(s) |-> lower_char(s[i])]

RECURSIVE lstrip(_)
lstrip(s) ==
    IF s = <<>> THEN <<>>
    ELSE IF Head(s) \in Whitespace THEN lstrip(Tail(s)) ELSE s

RECURSIVE rstrip(_)
rstrip(s) ==
    IF s = <<>> THEN <<>>
    ELSE IF s[Len(s)] \in Whitespace THEN rstrip(SubSeq(s, 1, Len(s) - 1)) ELSE s

\* str.strip()
strip(s) == rstrip(lstrip(s))

\* sub in s
Contains(s, sub) ==
    \E i \in 1..(Len(s) - Len(sub) + 1) : SubSeq(s, i, i + Len(sub) - 1) = sub

SeqsUpTo(S, n) == UNION {[1..k -> S] : k \in 0..n}

(***************************** configuration *******************************)
MUSIC_WHILE_YOU_WAIT ==
    << <<"https://assets.ctfassets.net/.../oaklawn-dreams.mp3">>,
       <<"https://assets.ctfassets.net/.../broken-shovel.mp3">>,
       <<"https://assets.ctfassets.net/.../lennys-song.mp3">>,
       <<"https://assets.ctfassets.net/.../new-juno.mp3">>,
       <<"https://assets.ctfassets.net/.../davis-square-shuffle.mp3">> >>

get_phone_numbers == environ.PHONE_NUMBERS

\* A scan that keeps the last matching entry instead of returning at the first.
RECURSIVE owner_scan_last(_, _, _)
owner_scan_last(phone_numbers, i, phone_number) ==
    IF i > Len(phone_numbers) THEN None
    ELSE LET later == owner_scan_last(phone_numbers, i + 1, phone_number)
         IN  IF later # None THEN later
             ELSE IF phone_numbers[i].phone = phone_number THEN phone_numbers[i].name
                  ELSE None

\* The for loop of get_phone_number_owner: the first entry whose phone matches.
RECURSIVE owner_scan(_, _, _)
owner_scan(phone_numbers, i, phone_number) ==
    IF i > Len(phone_numbers) THEN None
    ELSE IF phone_numbers[i].phone = phone_number THEN phone_numbers[i].name
         ELSE owner_scan(phone_numbers, i + 1, phone_number)

get_phone_number_owner(phone_number) == owner_scan(get_phone_numbers, 1, phone_number)

get_hotline_description == environ.HOTLINE_DESC

\* The flag compared without lower-casing it.
autorecord_enabled_exact(autorecord_flag) == autorecord_flag = <<"t", "r", "u", "e">>

autorecord_enabled(autorecord_flag) == lower(autorecord_flag) = <<"t", "r", "u", "e">>

\* Anything but "false" taken as enabling the recording.
is_auto_recording_unless_false ==
    environ.AUTO_RECORD # None /\ lower(environ.AUTO_RECORD) # <<"f", "a", "l", "s", "e">>

is_auto_recording ==
    autorecord_enabled(IF environ.AUTO_RECORD = None
                       THEN <<"f", "a", "l", "s", "e">>
                       ELSE environ.AUTO_RECORD)

(**************************** the provider *********************************)
\* What a provider client call can do: return, raise nexmo.Error (the client
\* library's own error class), or raise any other exception (transport, signing).
ExcKinds == {"nexmo.Error", "Exception"}
NoError == "none"

\* fault.at = 0: no request of the cycle fails; otherwise the at-th request raises.
Faults(n) == {[at |-> 0, exc |-> NoError]} \cup [at : 1..n, exc : ExcKinds]

\* A loop that swallows the failing request's exception and goes on.
RECURSIVE issue_swallow(_, _, _, _)
issue_swallow(requests, i, fault, done) ==
    IF i > Len(requests) THEN [attempts |-> done, raised |-> NoError]
    ELSE issue_swallow(requests, i + 1, fault,
                       Append(done, [request |-> requests[i],
                                     result |-> IF fault.at = i THEN fault.exc ELSE "ok"]))

\* A handler's provider requests issued in order; the first one that raises ends
\* the sequence, the exception leaving the loop (the handlers have no try around it).
RECURSIVE issue(_, _, _, _)
issue(requests, i, fault, done) ==
    IF i > Len(requests) THEN [attempts |-> done, raised |-> NoError]
    ELSE IF fault.at = i
         THEN [attempts |-> Append(done, [request |-> requests[i], result |-> fault.exc]),
               raised |-> fault.exc]
         ELSE issue(requests, i + 1, fault,
                    Append(done, [request |-> requests[i], result |-> "ok"]))

\* The HTTP layer's answer to a handler that raised.
server_error == [status |-> 500]

(************************** /webhook/answer/ *******************************)
\* The two identifiers in the other order.
answer_url_swapped(host, conversation_uuid, call_uuid) ==
    <<"http://">> \o host \o <<"/webhook/answer_conference_call", "/">>
        \o call_uuid \o <<"/">> \o conversation_uuid \o <<"/">>

answer_url(host, conversation_uuid, call_uuid) ==
    <<"http://">> \o host \o <<"/webhook/answer_conference_call", "/">>
        \o conversation_uuid \o <<"/">> \o call_uuid \o <<"/">>

\* "to" and "from" exchanged.
create_call_params_reversed(phone_number_dict, hotline_number, host, conversation_uuid, call_uuid) ==
    [api |-> "create_call",
     to |-> <<[type |-> "phone", number |-> hotline_number]>>,
     from |-> [type |-> "phone", number |-> phone_number_dict.phone],
     answer_url |-> <<<<"http://">> \o host \o <<"/webhook/answer_conference_call", "/">>
                        \o conversation_uuid \o <<"/">> \o call_uuid \o <<"/">>>>,
     machine_detection |-> "hangup"]

create_call_params(phone_number_dict, hotline_number, host, conversation_uuid, call_uuid) ==
    [api |-> "create_call",
     to |-> <<[type |-> "phone", number |-> phone_number_dict.phone]>>,
     from |-> [type |-> "phone", number |-> hotline_number],
     answer_url |-> <<answer_url(host, conversation_uuid, call_uuid)>>,
     machine_detection |-> "hangup"]

base_greeting == <<"You've reached the ">> \o Str(get_hotline_description) \o <<".">>

recorded_greeting(greeting) == greeting \o <<" This call is recorded.">>

\* The caller's leg given the moderator's endOnExit.
conversation_ncco_moderator(conversation_uuid, track) ==
    [action |-> "conversation",
     name |-> conversation_uuid,
     musicOnHoldUrl |-> <<track>>,
     endOnExit |-> TRUE,
     startOnEnter |-> FALSE]

conversation_ncco(conversation_uuid, track) ==
    [action |-> "conversation",
     name |-> conversation_uuid,
     musicOnHoldUrl |-> <<track>>,
     endOnExit |-> FALSE,
     startOnEnter |-> FALSE]

record_update(ncco) ==
    [k \in DOMAIN ncco \cup {"record", "eventUrl"} |->
        IF k = "record" THEN TRUE
        ELSE IF k = "eventUrl"
             THEN <<environ.ZAPIER_CATCH_HOOK_RECORDING_FINISHED_URL>>
             ELSE ncco[k]]

answer_ncco(conversation_uuid, track) ==
    IF is_auto_recording
    THEN <<[action |-> "talk", text |-> recorded_greeting(base_greeting)],
           record_update(conversation_ncco(conversation_uuid, track))>>
    ELSE <<[action |-> "talk", text |-> base_greeting],
           conversation_ncco(conversation_uuid, track)>>

json_response(body) == [status |-> 200, content_type |-> "application/json", body |-> body]

answer_call(to, conversation_uuid_param, uuid_param, host, choice, fault) ==
    LET hotline_number == to
        conversation_uuid == strip(conversation_uuid_param)
        call_uuid == strip(uuid_param)
        ncco == answer_ncco(conversation_uuid, MUSIC_WHILE_YOU_WAIT[choice])
        phone_numbers == get_phone_numbers
        requests == [i \in 1..Len(phone_numbers) |->
                        create_call_params(phone_numbers[i], hotline_number, host,
                                           conversation_uuid, call_uuid)]
        run == issue(requests, 1, fault, <<>>)
        request == [to |-> to, conversation_uuid |-> conversation_uuid_param,
                    uuid |-> uuid_param, host |-> host]
    IN  /\ fault.at <= Len(phone_numbers)
        /\ last' = [handler |-> "answer_call",
                    request |-> request,
                    attempts |-> run.attempts,
                    raised |-> run.raised,
                    response |-> IF run.raised = NoError THEN json_response(ncco)
                                 ELSE server_error]
        /\ dialed' = dialed \cup
              {[call |-> last'.attempts[i].request, origin |-> request] :
                  i \in {j \in 1..Len(last'.attempts) : last'.attempts[j].result = "ok"}}
        /\ nreq' = nreq + 1
        /\ UNCHANGED environ

(***************** /webhook/answer_conference_call/{c}/{u}/ ****************)
\* The route pattern: after the fixed prefix, two non-empty segments holding no
\* "/", each followed by "/", and nothing after.
route_match(url) ==
    LET rest == SubSeq(url, 5, Len(url))
        slashes == {i \in 1..Len(rest) : rest[i] = "/"}
        first == CHOOSE i \in slashes : \A j \in slashes : i <= j
    IN  IF /\ Len(url) >= 4
           /\ url[1] = "http://"
           /\ url[3] = "/webhook/answer_conference_call"
           /\ url[4] = "/"
           /\ Cardinality(slashes) = 2
           /\ Len(rest) \in slashes
           /\ first > 1
           /\ first < Len(rest) - 1
        THEN [matched |-> TRUE,
              origin_conversation_uuid |-> SubSeq(rest, 1, first - 1),
              origin_call_uuid |-> SubSeq(rest, first + 1, Len(rest) - 1)]
        ELSE [matched |-> FALSE]

send_speech_params(origin_call_uuid, phone_number_owner) ==
    [api |-> "send_speech",
     uuid |-> origin_call_uuid,
     text |-> Str(phone_number_owner) \o <<" is joining this call.">>]

\* A handler that catches nothing.
caught_nothing(exc) == FALSE

\* except nexmo.Error
caught(exc) == exc = "nexmo.Error"

conference_ncco(phone_number_owner, origin_conversation_uuid) ==
    <<[action |-> "talk",
       text |-> <<"Hello ">> \o Str(phone_number_owner) \o <<", connecting you to ">>
                    \o Str(get_hotline_description) \o <<".">>],
      [action |-> "conversation",
       name |-> origin_conversation_uuid,
       startOnEnter |-> TRUE,
       endOnExit |-> TRUE]>>

\* via: the dialed call whose answer URL the provider is fetching ({} when the
\* route is requested by anyone else).
answer_conference_call(to, origin_conversation_uuid, origin_call_uuid, fault, via) ==
    LET phone_number_owner == get_phone_number_owner(to)
        run == issue(<<send_speech_params(origin_call_uuid, phone_number_owner)>>,
                     1, fault, <<>>)
        raised == IF caught(run.raised) THEN NoError ELSE run.raised
    IN  /\ fault.at <= 1
        /\ dialed' = dialed \ via
        /\ last' = [handler |-> "answer_conference_call",
                    request |-> [to |-> to,
                                 origin_conversation_uuid |-> origin_conversation_uuid,
                                 origin_call_uuid |-> origin_call_uuid,
                                 via |-> via],
                    attempts |-> run.attempts,
                    raised |-> raised,
                    response |-> IF raised = NoError
                                 THEN json_response(conference_ncco(phone_number_owner,
                                                        origin_conversation_uuid))
                                 ELSE server_error]
        /\ nreq' = nreq + 1
        /\ UNCHANGED environ

\* No route matches the URL: the HTTP layer answers 404 and no handler runs.
not_found(via) ==
    /\ dialed' = dialed \ via
    /\ last' = [handler |-> "not_found",
                request |-> [via |-> via],
                attempts |-> <<>>,
                raised |-> NoError,
                response |-> [status |-> 404]]
    /\ nreq' = nreq + 1
    /\ UNCHANGED environ

(************************* /webhook/inbound-sms/ ***************************)
\* The forwarded text without the sender.
sms_text_anonymous(from_number, message) == message

sms_text(from_number, message) == from_number \o <<": ">> \o message

staff_message(phone_number_dict, hotline_number, from_number, message) ==
    [api |-> "send_message",
     from |-> hotline_number,
     to |-> phone_number_dict.phone,
     text |-> sms_text(from_number, message)]

acknowledgment(hotline_number, from_number) ==
    [api |-> "send_message",
     from |-> hotline_number,
     to |-> from_number,
     text |-> <<"Thanks for contacting the ">> \o Str(get_hotline_description)
              \o <<". Someone should follow-up shortly. Note: they may follow up from a different number.">>]

inbound_sms_requests(hotline_number, from_number, message) ==
    LET phone_numbers == get_phone_numbers
    IN  [i \in 1..Len(phone_numbers) |->
            staff_message(phone_numbers[i], hotline_number, from_number, message)]
        \o <<acknowledgment(hotline_number, from_number)>>

inbound_sms(to, msisdn, text, fault) ==
    LET requests == inbound_sms_requests(to, msisdn, text)
        run == issue(requests, 1, fault, <<>>)
    IN  /\ fault.at <= Len(requests)
        /\ last' = [handler |-> "inbound_sms",
                    request |-> [to |-> to, msisdn |-> msisdn, text |-> text],
                    attempts |-> run.attempts,
                    raised |-> run.raised,
                    response |-> IF run.raised = NoError
                                 THEN [status |-> 204, body |-> None]
                                 ELSE server_error]
        /\ nreq' = nreq + 1
        /\ UNCHANGED <<environ, dialed>>

(****************************** /recordings/ *******************************)
\* "and" where the code has "or".
unauthorized_both(incoming_api_key, incoming_api_secret) ==
    /\ environ.NEXMO_API_KEY # incoming_api_key
    /\ environ.NEXMO_API_SECRET # incoming_api_secret

unauthorized(incoming_api_key, incoming_api_secret) ==
    \/ environ.NEXMO_API_KEY # incoming_api_key
    \/ environ.NEXMO_API_SECRET # incoming_api_secret

\* The bytes the provider holds for a recording.
recording_bytes(recording_url) == <<"audio of ">> \o recording_url

proxy_recording(recording_url, incoming_api_key, incoming_api_secret, fault) ==
    LET requests == IF unauthorized(incoming_api_key, incoming_api_secret)
                    THEN <<>>
                    ELSE <<[api |-> "get_recording", url |-> recording_url]>>
        run == issue(requests, 1, fault, <<>>)
    IN  /\ fault.at <= Len(requests)
        /\ last' = [handler |-> "proxy_recording",
                    request |-> [recording_url |-> recording_url,
                                 api_key |-> incoming_api_key,
                                 api_secret |-> incoming_api_secret],
                    attempts |-> run.attempts,
                    raised |-> run.raised,
                    response |-> IF unauthorized(incoming_api_key, incoming_api_secret)
                                 THEN [status |-> 401, body |-> None]
                                 ELSE IF run.raised = NoError
                                      THEN [status |-> 200,
                                            body |-> recording_bytes(recording_url),
                                            content_type |-> "audio/mpeg"]
                                      ELSE server_error]
        /\ nreq' = nreq + 1
        /\ UNCHANGED <<environ, dialed>>

(************************ configurations and inputs ************************)
StaffPool ==
    {[name |-> <<"Ann">>, phone |-> <<"1111">>],
     [name |-> <<"Bo">>, phone |-> <<"2222">>],
     [name |-> <<"Cy">>, phone |-> <<"1111">>]}

Directories == SeqsUpTo(StaffPool, MaxStaff)

AutoRecordValues ==
    {None,
     <<"t", "r", "u", "e">>, <<"T", "r", "u", "e">>, <<"T", "R", "U", "E">>,
     <<"f", "a", "l", "s", "e">>, <<"t", "r", "u", "e", " ">>, <<"1">>}

Environs ==
    [PHONE_NUMBERS : Directories,
     HOTLINE_DESC : {<<"CoC hotline">>},
     AUTO_RECORD : AutoRecordValues,
     ZAPIER_CATCH_HOOK_RECORDING_FINISHED_URL : {<<"https://hooks.zapier.com/catch/1/">>},
     NEXMO_API_KEY : {<<"key-1">>},
     NEXMO_API_SECRET : {<<"secret-1">>}]

Hotlines == {<<"9999">>}
Hosts == {<<"hotline.example.org">>}
ConversationIds == {<<"c", "1">>, <<"c", "2", " ">>}
CallIds == {<<"u", "1">>, <<" ", "u", "2">>, <<" ">>}
StaffPhones == {e.phone : e \in StaffPool}
PhoneNumbers == StaffPhones \cup {<<"5555">>}
Senders == {<<"5555">>, <<"1111">>}
Messages == {<<"help">>, <<"">>}
ApiKeys == {<<"key-1">>, <<"key-2">>}
ApiSecrets == {<<"secret-1">>, <<"secret-2">>}
RecordingUrls == {<<"https://api.nexmo.com/v1/files/r1">>}
Choices == 1..Len(MUSIC_WHILE_YOU_WAIT)

NoRequest ==
    [handler |-> "none", request |-> [via |-> {}], attempts |-> <<>>,
     raised |-> NoError, response |-> [status |-> 0]]

Init ==
    /\ environ \in Environs
    /\ dialed = {}
    /\ last = NoRequest
    /\ nreq = 0

\* The provider's webhook for a call to the hotline.
InboundCall ==
    \E to \in Hotlines, c \in ConversationIds, u \in CallIds, host \in Hosts,
       choice \in Choices, fault \in Faults(Len(get_phone_numbers)) :
        answer_call(to, c, u, host, choice, fault)

\* A GET of the conference route by any client.
ConferenceRequest ==
    \E to \in PhoneNumbers, c \in {strip(x) : x \in ConversationIds},
       u \in {strip(x) : x \in CallIds} \ {<<>>}, fault \in Faults(1) :
        answer_conference_call(to, c, u, fault, {})

InboundSms ==
    \E to \in Hotlines, msisdn \in Senders, text \in Messages,
       fault \in Faults(Len(get_phone_numbers) + 1) :
        inbound_sms(to, msisdn, text, fault)

RecordingDownload ==
    \E url \in RecordingUrls, key \in ApiKeys, secret \in ApiSecrets,
       fault \in Faults(1) :
        proxy_recording(url, key, secret, fault)

\* A dialed staff member picks up: the provider fetches the call's answer URL,
\* passing the number it dialed as "to".
StaffAnswers ==
    \E d \in dialed, fault \in Faults(1) :
        LET m == route_match(d.call.answer_url[1])
        IN  /\ m.matched
            /\ answer_conference_call(d.call.to[1].number, m.origin_conversation_uuid,
                                      m.origin_call_uuid, fault, {d})

StaffAnswersUnrouted ==
    \E d \in dialed :
        /\ ~route_match(d.call.answer_url[1]).matched
        /\ not_found({d})

\* A handler reads environ and its own request and nothing a previous request left
\* behind: Spec runs one request cycle of a fresh process, for every configuration.
Next ==
    \/ last = NoRequest /\ InboundCall
    \/ last = NoRequest /\ ConferenceRequest
    \/ last = NoRequest /\ InboundSms
    \/ last = NoRequest /\ RecordingDownload

Spec == Init /\ [][Next]_vars

\* One deployment, several calls in flight: SpecSession interleaves inbound calls
\* with the staff answers the provider reports for the calls dialed.
SessionEnviron ==
    [PHONE_NUMBERS |-> <<[name |-> <<"Ann">>, phone |-> <<"1111">>],
                         [name |-> <<"Bo">>, phone |-> <<"2222">>]>>,
     HOTLINE_DESC |-> <<"CoC hotline">>,
     AUTO_RECORD |-> None,
     ZAPIER_CATCH_HOOK_RECORDING_FINISHED_URL |-> <<"https://hooks.zapier.com/catch/1/">>,
     NEXMO_API_KEY |-> <<"key-1">>,
     NEXMO_API_SECRET |-> <<"secret-1">>]

InitSession ==
    /\ environ = SessionEnviron
    /\ dialed = {}
    /\ last = NoRequest
    /\ nreq = 0

NextSession ==
    \/ nreq < MaxSessionRequests /\ InboundCall
    \/ nreq < MaxSessionRequests /\ StaffAnswers
    \/ nreq < MaxSessionRequests /\ StaffAnswersUnrouted

SpecSession == InitSession /\ [][NextSession]_vars

(******************************* claims ************************************)
Directory == environ.PHONE_NUMBERS
UniquePhones ==
    \A i, j \in 1..Len(Directory) : Directory[i].phone = Directory[j].phone => i = j
Padded(s) == s # <<>> /\ (s[1] \in Whitespace \/ s[Len(s)] \in Whitespace)
\* t is s without its leading and trailing whitespace.
Trimmed(s, t) ==
    \E a, b \in 0..Len(s) :
        /\ a + b <= Len(s)
        /\ t = SubSeq(s, a + 1, Len(s) - b)
        /\ \A i \in (1..a) \cup ((Len(s) - b + 1)..Len(s)) : s[i] \in Whitespace
        /\ t # <<>> => t[1] \notin Whitespace /\ t[Len(t)] \notin Whitespace
TrimOf(s) ==
    CHOOSE t \in {SubSeq(s, a, b) : a \in 1..(Len(s) + 1), b \in 0..Len(s)} : Trimmed(s, t)
AllSucceeded == \A i \in 1..Len(last.attempts) : last.attempts[i].result = "ok"
PathSegment(c, u) == <<"/">> \o c \o <<"/">> \o u \o <<"/">>

DialsWith(c, u) ==
    /\ Len(last.attempts) = Len(Directory)
    /\ \A i \in 1..Len(Directory) :
        LET r == last.attempts[i].request
        IN  /\ r.api = "create_call"
            /\ r.to = <<[type |-> "phone", number |-> Directory[i].phone]>>
            /\ r.from = [type |-> "phone", number |-> last.request.to]
            /\ Len(r.answer_url) = 1
            /\ Contains(r.answer_url[1], PathSegment(c, u))
            /\ r.machine_detection = "hangup"
    /\ UniquePhones =>
        \A i, j \in 1..Len(last.attempts) :
            last.attempts[i].request.to = last.attempts[j].request.to => i = j

\* C1 as stated: with no provider failure, answer_call issues one create_call per
\* directory entry, to that entry's phone, from the hotline number, with machine
\* detection "hangup" and an answer URL holding /c/u/ for the webhook's own c and u.
C1_AsStated ==
    (last.handler = "answer_call" /\ AllSucceeded /\ last.response.status = 200)
        => DialsWith(last.request.conversation_uuid, last.request.uuid)

\* C1 amended: the same, the answer URL holding /c'/u'/ where c' and u' are the
\* webhook's conversation and call identifiers with surrounding whitespace removed.
C1_DialsEveryStaff ==
    (last.handler = "answer_call" /\ AllSucceeded)
        => /\ last.response.status = 200
           /\ DialsWith(TrimOf(last.request.conversation_uuid), TrimOf(last.request.uuid))

C1_Witness ==
    /\ last.handler = "answer_call"
    /\ AllSucceeded
    /\ Len(Directory) = 2
    /\ UniquePhones
    /\ Padded(last.request.conversation_uuid)
    /\ Len(last.attempts) = 2

IsTrueIgnoringCase(flag) ==
    /\ flag # None
    /\ Len(flag) = 4
    /\ flag[1] \in {"t", "T"}
    /\ flag[2] \in {"r", "R"}
    /\ flag[3] \in {"u", "U"}
    /\ flag[4] \in {"e", "E"}

BaseGreeting == <<"You've reached the ", environ.HOTLINE_DESC[1], ".">>
Answered == last.handler = "answer_call" /\ last.response.status = 200

\* C2 as stated: with auto-recording enabled the greeting is the base greeting
\* followed by ", this call is recorded", and the conversation instruction has
\* record = true and eventUrl = [the configured recording-finished URL].
C2_AsStated ==
    (Answered /\ IsTrueIgnoringCase(environ.AUTO_RECORD))
        => /\ last.response.body[1].text = BaseGreeting \o <<", this call is recorded">>
           /\ "record" \in DOMAIN last.response.body[2]
           /\ last.response.body[2].record = TRUE
           /\ last.response.body[2].eventUrl
                = <<environ.ZAPIER_CATCH_HOOK_RECORDING_FINISHED_URL>>

\* C2 amended: with auto-recording enabled the greeting is the base greeting
\* followed by the sentence " This call is recorded.", and the conversation
\* instruction has record = true and eventUrl = [the configured URL].
C2_RecordingDisclosed ==
    (Answered /\ IsTrueIgnoringCase(environ.AUTO_RECORD))
        => /\ last.response.body[1].text = BaseGreeting \o <<" This call is recorded.">>
           /\ "record" \in DOMAIN last.response.body[2]
           /\ "eventUrl" \in DOMAIN last.response.body[2]
           /\ last.response.body[2].record = TRUE
           /\ last.response.body[2].eventUrl
                = <<environ.ZAPIER_CATCH_HOOK_RECORDING_FINISHED_URL>>

C2_Witness ==
    /\ Answered
    /\ environ.AUTO_RECORD = <<"T", "R", "U", "E">>
    /\ Len(Directory) > 0

\* C3: with AUTO_RECORD unset or anything but a case-insensitive "true", the greeting
\* is the base greeting alone, without a recording clause, and the conversation
\* instruction has no "record" key and no "eventUrl" key.
C3_NoDisclosureWhenDisabled ==
    (Answered /\ ~IsTrueIgnoringCase(environ.AUTO_RECORD))
        => /\ last.response.body[1].text = BaseGreeting
           /\ ~Contains(last.response.body[1].text, <<" This call is recorded.">>)
           /\ ~Contains(last.response.body[1].text, <<", this call is recorded">>)
           /\ "record" \notin DOMAIN last.response.body[2]
           /\ "eventUrl" \notin DOMAIN last.response.body[2]

C3_Witness ==
    /\ Answered
    /\ environ.AUTO_RECORD = <<"t", "r", "u", "e", " ">>

AckText ==
    <<"Thanks for contacting the ", environ.HOTLINE_DESC[1],
      ". Someone should follow-up shortly. Note: they may follow up from a different number.">>

\* C4: with no provider failure, inbound_sms sends N + 1 messages, all from the
\* hotline number: the i-th to the i-th directory phone with text "s: m", then one
\* acknowledgment to s; and it answers 204 with no body.
C4_SmsFanOut ==
    (last.handler = "inbound_sms" /\ AllSucceeded)
        => /\ Len(last.attempts) = Len(Directory) + 1
           /\ \A i \in 1..Len(last.attempts) :
                /\ last.attempts[i].request.api = "send_message"
                /\ last.attempts[i].request.from = last.request.to
           /\ \A i \in 1..Len(Directory) :
                /\ last.attempts[i].request.to = Directory[i].phone
                /\ last.attempts[i].request.text
                     = last.request.msisdn \o <<": ">> \o last.request.text
           /\ last.attempts[Len(Directory) + 1].request.to = last.request.msisdn
           /\ last.attempts[Len(Directory) + 1].request.text = AckText
           /\ Cardinality({i \in 1..Len(last.attempts) :
                             last.attempts[i].request.text = AckText}) = 1
           /\ last.response = [status |-> 204, body |-> None]

C4_Witness ==
    /\ last.handler = "inbound_sms"
    /\ AllSucceeded
    /\ Len(Directory) = 2
    /\ last.request.msisdn = Directory[1].phone
    /\ last.response.status = 204

CredentialsMatch ==
    /\ last.request.api_key = environ.NEXMO_API_KEY
    /\ last.request.api_secret = environ.NEXMO_API_SECRET

\* C5: proxy_recording answers 401 with no body and makes no provider request unless
\* both supplied credentials equal the configured ones; when both match it requests
\* the recording once and, the fetch succeeding, answers 200 with an audio content type.
C5_CredentialGate ==
    last.handler = "proxy_recording"
        => /\ ~CredentialsMatch
                => /\ last.response = [status |-> 401, body |-> None]
                   /\ last.attempts = <<>>
           /\ CredentialsMatch
                => /\ Len(last.attempts) = 1
                   /\ last.attempts[1].request
                        = [api |-> "get_recording", url |-> last.request.recording_url]
                   /\ AllSucceeded
                        => /\ last.response.status = 200
                           /\ last.response.content_type = "audio/mpeg"
           /\ last.response.status = 200 => CredentialsMatch

C5_Witness ==
    /\ last.handler = "proxy_recording"
    /\ last.request.api_key = environ.NEXMO_API_KEY
    /\ last.request.api_secret # environ.NEXMO_API_SECRET
    /\ last.response.status = 401

Matches(phone) == {i \in 1..Len(Directory) : Directory[i].phone = phone}
FirstMatch(phone) == CHOOSE i \in Matches(phone) : \A j \in Matches(phone) : i <= j
OwnerText(phone) ==
    IF Matches(phone) = {} THEN <<"None">> ELSE Directory[FirstMatch(phone)].name
SpeechUncaught == Len(last.attempts) = 1 /\ last.attempts[1].result = "Exception"

C6_WitnessFirstMatch ==
    /\ last.handler = "answer_conference_call"
    /\ Cardinality(Matches(last.request.to)) = 2
    /\ Directory[1].name # Directory[2].name
    /\ last.response.status = 200

JoinInstructions ==
    <<[action |-> "talk",
       text |-> <<"Hello ">> \o OwnerText(last.request.to)
                  \o <<", connecting you to ", environ.HOTLINE_DESC[1], ".">>],
      [action |-> "conversation",
       name |-> last.request.origin_conversation_uuid,
       startOnEnter |-> TRUE,
       endOnExit |-> TRUE]>>

\* C7 as stated: whatever way the speech request fails, answer_conference_call
\* makes it once and answers 200 with the talk + conversation instructions.
C7_AsStated ==
    last.handler = "answer_conference_call"
        => /\ Len(last.attempts) = 1
           /\ last.response.status = 200
           /\ last.response.body = JoinInstructions

\* C7 amended: when the speech request succeeds or raises nexmo.Error, the handler
\* has made it exactly once and answers 200 with the same talk + conversation
\* instructions in both cases; any other exception is not caught (it ends the
\* request in a server error), the speech request still made once.
C7_SpeechErrorSuppressed ==
    last.handler = "answer_conference_call"
        => /\ Len(last.attempts) = 1
           /\ last.attempts[1].request.api = "send_speech"
           /\ last.attempts[1].result \in {"ok", "nexmo.Error"}
                => /\ last.response.status = 200
                   /\ last.response.body = JoinInstructions
           /\ last.attempts[1].result = "Exception" => last.response.status = 500

C7_Witness ==
    /\ last.handler = "answer_conference_call"
    /\ last.attempts[1].result = "nexmo.Error"
    /\ last.response.status = 200

Playlist == {MUSIC_WHILE_YOU_WAIT[i] : i \in DOMAIN MUSIC_WHILE_YOU_WAIT}

AnswerShape(name) ==
    /\ Len(last.response.body) = 2
    /\ last.response.body[1].action = "talk"
    /\ DOMAIN last.response.body[1] = {"action", "text"}
    /\ last.response.body[1].text
         \in {BaseGreeting, BaseGreeting \o <<" This call is recorded.">>}
    /\ last.response.body[2].action = "conversation"
    /\ last.response.body[2].name = name
    /\ Len(last.response.body[2].musicOnHoldUrl) = 1
    /\ last.response.body[2].musicOnHoldUrl[1] \in Playlist
    /\ Cardinality(Playlist) = 5
    /\ last.response.body[2].endOnExit = FALSE
    /\ last.response.body[2].startOnEnter = FALSE

\* C8 as stated: a successful answer_call response is [talk(greeting),
\* conversation] with the conversation named by the webhook's conversation
\* identifier, one hold-music URL from the five-track playlist, endOnExit and
\* startOnEnter false.
C8_AsStated == Answered => AnswerShape(last.request.conversation_uuid)

\* C8 amended: the same, the conversation named by the webhook's conversation
\* identifier with surrounding whitespace removed.
C8_AnswerShape == Answered => AnswerShape(TrimOf(last.request.conversation_uuid))

C8_Witness ==
    /\ Answered
    /\ Padded(last.request.conversation_uuid)
    /\ last.response.body[2].musicOnHoldUrl[1] = MUSIC_WHILE_YOU_WAIT[5]

JoinOf(c) ==
    [action |-> "conversation", name |-> c, startOnEnter |-> TRUE, endOnExit |-> TRUE]

Correlates(d, c, u) ==
    /\ last.request.to = d.call.to[1].number
    /\ Len(last.attempts) = 1
    /\ last.attempts[1].request.api = "send_speech"
    /\ last.attempts[1].request.uuid = u
    /\ last.response.status = 200
        => /\ Len(last.response.body) = 2
           /\ last.response.body[2] = JoinOf(c)

ProviderAnswered == last.handler = "answer_conference_call" /\ last.request.via # {}

ExpectedTarget(i) ==
    IF i <= Len(Directory) THEN Directory[i].phone ELSE last.request.msisdn

\* C10: when the k-th provider request of answer_call or inbound_sms raises, the
\* request ends in a server error (no instruction list, no 204); the k-th request
\* is the last one made, so later staff are not reached and the acknowledgment is
\* not sent; and the k-1 earlier requests stand (the dialed calls stay dialed).
C10_FailurePropagates ==
    (last.handler \in {"answer_call", "inbound_sms"} /\ ~AllSucceeded)
        => LET k == Len(last.attempts)
           IN  /\ last.response = [status |-> 500]
               /\ last.attempts[k].result \in ExcKinds
               /\ \A i \in 1..(k - 1) : last.attempts[i].result = "ok"
               /\ last.handler = "answer_call"
                    => /\ k <= Len(Directory)
                       /\ \A i \in 1..k :
                            last.attempts[i].request.to[1].number = Directory[i].phone
                       /\ \A i \in 1..(k - 1) :
                            \E d \in dialed : /\ d.call = last.attempts[i].request
                                              /\ d.origin = last.request
               /\ last.handler = "inbound_sms"
                    => /\ k <= Len(Directory) + 1
                       /\ \A i \in 1..k : last.attempts[i].request.to = ExpectedTarget(i)
                       /\ k <= Len(Directory)
                            => \A i \in 1..k : last.attempts[i].request.text # AckText

C10_Witness ==
    /\ last.handler = "inbound_sms"
    /\ Len(Directory) = 2
    /\ Len(last.attempts) = 2
    /\ last.attempts[1].result = "ok"
    /\ last.attempts[2].result = "nexmo.Error"
    /\ last.response.status = 500

\* A further reachable case of C10: the second dial raises, the first call stays dialed.
C10_WitnessCall ==
    /\ last.handler = "answer_call"
    /\ Len(Directory) = 2
    /\ Len(last.attempts) = 2
    /\ last.attempts[2].result = "Exception"
    /\ Cardinality(dialed) = 1

====
